---- MODULE Spec2Model ----
(***************************************************************************)
(* Retrieval-augmented question answering service: the FastAPI handlers of *)
(* app/main.py over VectorStoreService (a ChromaDB collection),            *)
(* EmbeddingService and LLMService.                                        *)
(*                                                                         *)
(* Numbers: a cosine distance, a similarity and a threshold are integers   *)
(* in hundredths (distance 0.20 is 20, threshold 0.6 is 60).               *)
(* Text: a string is a sequence of runs [ch, n] (the character ch repeated *)
(* n times), so that a 201-character passage stays small; StrLen, StrTake  *)
(* and StrCat are len(), s[:k] and + on that encoding.                     *)
(*                                                                         *)
(* Scheduling: every handler is an `async def` whose body holds no await,  *)
(* and uvicorn runs one event loop (main.py:279-284), so a handler body    *)
(* runs from its first statement to its return before another starts.      *)
(* The handlers are nevertheless modelled statement by statement, and the  *)
(* event loop's rule is the guard EventLoopFree of the Start actions.      *)
(*                                                                         *)
(* Collaborator outages (embedding model, index, LLM) are modelled in the  *)
(* query pipeline; the document handlers are modelled with the errors the  *)
(* collection raises by validation.                                        *)
(***************************************************************************)
EXTENDS Integers, Sequences, FiniteSets, TLC

(* ------------------------------ bounds -------------------------------- *)
NumIds == 2
NumTasks == 2
MaxBatch == NumIds

(* -------------------------- program constants ------------------------- *)
PreviewCap == 200
TopKMin == 1
TopKMax == 10
ThresholdMin == 0
ThresholdMax == 100
One == 100

Ids == 1..NumIds
Tasks == 1..NumTasks

(* ------------------------------- text --------------------------------- *)
Text(ch, n) == <<[ch |-> ch, n |-> n]>>
Ellipsis == Text(".", 3)

RECURSIVE StrLen(_)
StrLen(s) == IF s = <<>> THEN 0 ELSE Head(s).n + StrLen(Tail(s))

RECURSIVE StrTake(_, _)
StrTake(s, k) ==
    IF s = <<>> \/ k <= 0 THEN <<>>
    ELSE IF Head(s).n <= k THEN <<Head(s)>> \o StrTake(Tail(s), k - Head(s).n)
    ELSE <<[ch |-> Head(s).ch, n |-> k]>>

StrCat(a, b) == a \o b

\* The documents sent to /documents/add: a content and its metadata (opaque
\* to the service). One content is a character over the preview cap, the
\* other is exactly at it.
Bodies ==
    { [content |-> Text("b", PreviewCap + 1), metadata |-> "m2"],
      [content |-> Text("c", PreviewCap), metadata |-> "m3"] }
\* The query texts: the two contents above, a text at the same distance from
\* both and a text opposite to both.
Queries == {Text("a", 2), Text("b", PreviewCap + 1), Text("c", PreviewCap), Text("z", 1)}
TopKs == {k \in {1, 2} : TopKMin <= k /\ k <= TopKMax}
Thresholds == {th \in {0, 80, 100} : ThresholdMin <= th /\ th <= ThresholdMax}

(* ----------------------------- embedding ------------------------------ *)
\* The encoder is a fixed function of the text. Vectors have norm 10; the
\* direction is decided by the leading character of the text.
Direction(ch) ==
    CASE ch = "a" -> <<10, 0>>
      [] ch = "b" -> <<8, 6>>
      [] ch = "c" -> <<8, -6>>
      [] OTHER    -> <<-10, 0>>

create_embedding(text) == IF text = <<>> THEN <<0, 10>> ELSE Direction(Head(text).ch)

RECURSIVE create_embeddings(_)
create_embeddings(texts) ==
    IF texts = <<>> THEN <<>>
    ELSE <<create_embedding(Head(texts))>> \o create_embeddings(Tail(texts))

Dot(u, v) == u[1] * v[1] + u[2] * v[2]
\* cosine distance = 1 - u.v / (|u| |v|), in hundredths; every vector has |u|^2 = 100
CosineDistance(u, v) == One - (Dot(u, v) * One) \div 100

\* main.py:175: similarity = 1 - distance
Similarity(distance) == One - distance


(* ------------------- the collection (ChromaDB calls) ------------------ *)
\* The collection is a map from the stored ids to their records.
EmptyCollection == [i \in {} |-> 0]

count(s) == Cardinality(DOMAIN s)

Record(content, embedding, metadata) ==
    [content |-> content, embedding |-> embedding, metadata |-> metadata]

HasDuplicates(ids) == \E i, j \in 1..Len(ids) : i < j /\ ids[i] = ids[j]

\* Variant: the lists are compared with each other and not with the ids.
LengthsMatchAmongPayload(ids, contents, embeddings, metadatas) ==
    /\ Len(embeddings) = Len(contents)
    /\ Len(metadatas) = Len(contents)

LengthsMatch(ids, contents, embeddings, metadatas) ==
    /\ Len(embeddings) = Len(ids)
    /\ Len(metadatas) = Len(ids)
    /\ Len(contents) = Len(ids)

\* Collection.add validates its arguments before it writes anything: the ids
\* (non-empty, no duplicate), then the lengths of the parallel lists.
AddError(ids, contents, embeddings, metadatas) ==
    IF Len(ids) = 0 THEN "EmptyIds"
    ELSE IF HasDuplicates(ids) THEN "DuplicateID"
    ELSE IF ~LengthsMatch(ids, contents, embeddings, metadatas) THEN "LengthMismatch"
    ELSE "none"

\* Collection.add of one record: an id the collection already holds is left
\* as it is (add is insert-only; Collection.upsert is the replacing call).
CollectionAdd(s, id, rec) ==
    IF id \in DOMAIN s THEN s
    ELSE [i \in DOMAIN s \cup {id} |-> IF i = id THEN rec ELSE s[i]]

\* Variant: deleting an id that is not stored is reported as an error.
CollectionDeleteStrict(s, id) ==
    [err |-> IF id \in DOMAIN s THEN "none" ELSE "NotFound",
     store |-> [i \in DOMAIN s \ {id} |-> s[i]]]

\* Collection.delete(ids=[id]): an id that is not stored is not an error.
CollectionDelete(s, id) ==
    [err |-> "none", store |-> [i \in DOMAIN s \ {id} |-> s[i]]]

Neighbor(s, id, q) ==
    [id |-> id, document |-> s[id].content, metadata |-> s[id].metadata,
     distance |-> CosineDistance(q, s[id].embedding)]

\* Variant: the farthest records first.
IsFarthestOrder(s, q, ord) ==
    /\ \A i, j \in 1..Len(ord) : i < j =>
          /\ ord[i] # ord[j]
          /\ CosineDistance(q, s[ord[i]].embedding) >= CosineDistance(q, s[ord[j]].embedding)
    /\ \A i \in 1..Len(ord) : \A o \in DOMAIN s \ {ord[j] : j \in 1..Len(ord)} :
          CosineDistance(q, s[ord[i]].embedding) >= CosineDistance(q, s[o].embedding)

\* An order is a sequence of distinct stored ids, nearest first, that leaves
\* out no id nearer than one it holds.
IsNearestOrder(s, q, ord) ==
    /\ \A i, j \in 1..Len(ord) : i < j =>
          /\ ord[i] # ord[j]
          /\ CosineDistance(q, s[ord[i]].embedding) <= CosineDistance(q, s[ord[j]].embedding)
    /\ \A i \in 1..Len(ord) : \A o \in DOMAIN s \ {ord[j] : j \in 1..Len(ord)} :
          CosineDistance(q, s[ord[i]].embedding) <= CosineDistance(q, s[o].embedding)

Min(a, b) == IF a < b THEN a ELSE b

\* Collection.query(n_results=k): the k nearest records (all of them when fewer
\* are stored); the order among records at the same distance is the index's.
QueryOrders(s, q, k) ==
    {ord \in [1..Min(k, count(s)) -> DOMAIN s] : IsNearestOrder(s, q, ord)}

QueryResult(s, q, ord) == [i \in 1..Len(ord) |-> Neighbor(s, ord[i], q)]

(* ------------------------- the query pipeline ------------------------- *)
\* Variant: a similarity equal to the threshold does not qualify.
QualifiesStrictly(similarity, threshold) == similarity > threshold

Qualifies(similarity, threshold) == similarity >= threshold

\* main.py:171-184: the loop over the index result, in its order.
RECURSIVE FilterLoop(_, _, _, _)
FilterLoop(results, threshold, i, relevant_docs) ==
    IF i > Len(results) THEN relevant_docs
    ELSE LET distance == results[i].distance
             similarity == Similarity(distance)
         IN FilterLoop(results, threshold, i + 1,
                IF Qualifies(similarity, threshold)
                THEN Append(relevant_docs,
                        [id |-> results[i].id, document |-> results[i].document,
                         metadata |-> results[i].metadata, distance |-> distance,
                         similarity |-> similarity])
                ELSE relevant_docs)

\* llm.py:59-66: one numbered entry per passage, with its relevance in percent.
_format_context(docs) ==
    [i \in 1..Len(docs) |->
        [source |-> i, relevance |-> Similarity(docs[i].distance), content |-> docs[i].document]]

NoPrompt == [kind |-> "none", query |-> <<>>, context |-> <<>>]

\* Variant: the grounded prompt whatever the passages.
BuildPromptGrounded(query, context_docs) ==
    [kind |-> "grounded", query |-> query, context |-> _format_context(context_docs)]

\* llm.py:18-48: the context-free prompt when no passage is given, the grounded one otherwise.
BuildPrompt(query, context_docs) ==
    IF Len(context_docs) = 0
    THEN [kind |-> "plain", query |-> query, context |-> <<>>]
    ELSE [kind |-> "grounded", query |-> query, context |-> _format_context(context_docs)]

\* Variant: a content of exactly PreviewCap characters is cut too.
PreviewOffByOne(document) ==
    IF StrLen(document) >= PreviewCap
    THEN StrCat(StrTake(document, PreviewCap), Ellipsis)
    ELSE document

\* main.py:195 and 225: the content preview.
Preview(document) ==
    IF StrLen(document) > PreviewCap
    THEN StrCat(StrTake(document, PreviewCap), Ellipsis)
    ELSE document

\* f"{similarity*100:.1f}%": the percentage and its one decimal digit
\* (similarities are whole hundredths here, so the digit is 0).
FormatPercent(similarity) == [percent |-> similarity, tenth |-> 0]

\* main.py:192-200
FormatSources(relevant_docs) ==
    [i \in 1..Len(relevant_docs) |->
        [id |-> relevant_docs[i].id,
         content |-> Preview(relevant_docs[i].document),
         similarity |-> FormatPercent(relevant_docs[i].similarity),
         metadata |-> relevant_docs[i].metadata]]

(* ------------------------------- state -------------------------------- *)
VARIABLES
    store,        \* the collection's records
    collection,   \* "ready", or "deleted" between reset's two calls
    pc,           \* per task: the statement its handler is at ("idle": no request)
    req,          \* per task: the request being handled
    loc,          \* per task: the handler's local variables
    done,         \* the response returned last (until the next request starts)
    hist          \* the operation completed last

vars == <<store, collection, pc, req, loc, done, hist>>

NoReq ==
    [op |-> "none", id |-> 0, content |-> <<>>, metadata |-> "", documents |-> <<>>,
     ids |-> <<>>, contents |-> <<>>, metadatas |-> <<>>,
     query |-> <<>>, top_k |-> 0, threshold |-> 0]

NoLoc ==
    [pre |-> EmptyCollection, embedding |-> <<>>, ids |-> <<>>, contents |-> <<>>,
     embeddings |-> <<>>, metadatas |-> <<>>, i |-> 0, results |-> <<>>,
     relevant |-> <<>>, prompt |-> NoPrompt, calls |-> 0, stages |-> <<>>,
     answer |-> "", docs |-> {}, clean |-> TRUE, added |-> 0]

NoHist == [op |-> "other", id |-> 0]

NoDone ==
    [status |-> "none", detail |-> "", req |-> NoReq, loc |-> NoLoc, post |-> EmptyCollection,
     total |-> 0, answer |-> "", sources |-> <<>>, num_sources |-> 0, prev |-> NoHist]

Init ==
    /\ store = EmptyCollection
    /\ collection = "ready"
    /\ pc = [t \in Tasks |-> "idle"]
    /\ req = [t \in Tasks |-> NoReq]
    /\ loc = [t \in Tasks |-> NoLoc]
    /\ done = NoDone
    /\ hist = NoHist

(* ----------------------------- scheduling ----------------------------- *)
\* Variant: handlers run on threads of their own, a request starts at any time.
EventLoopShared(t) == TRUE

\* A handler body holds no await: the event loop starts a handler only when
\* no other handler is inside its body.
EventLoopFree(t) == \A u \in Tasks \ {t} : pc[u] = "idle"

\* Task u is inside a call that changes the collection: part of a batch is
\* written, or the collection is deleted and not yet created again.
MidMutation(u) ==
    \/ pc[u] = "batch_insert" /\ loc[u].i > 1
    \/ pc[u] = "reset_create"

\* What a call on the collection by task t meets.
Undisturbed(t) == \A u \in Tasks \ {t} : ~MidMutation(u)

Touch(t, l) == [l EXCEPT !.clean = l.clean /\ Undisturbed(t)]

\* Tasks are the slots of the requests in flight; a request takes the first free one.
FirstFree(t) == \A u \in Tasks : u < t => pc[u] # "idle"

BeginWith(t, r, first, l) ==
    /\ pc[t] = "idle"
    /\ FirstFree(t)
    /\ EventLoopFree(t)
    /\ pc' = [pc EXCEPT ![t] = first]
    /\ req' = [req EXCEPT ![t] = r]
    /\ loc' = [loc EXCEPT ![t] = [l EXCEPT !.pre = store]]
    /\ done' = NoDone
    /\ UNCHANGED <<store, collection, hist>>

Begin(t, r, first) == BeginWith(t, r, first, NoLoc)

\* What hist keeps of a completed request: a successful delete and its id.
Summary(r, status) ==
    IF status = "ok" /\ r.op = "delete_document"
    THEN [op |-> "delete", id |-> r.id]
    ELSE [op |-> "other", id |-> 0]

\* The handler of task t returns: `resp` gives status, detail, total, answer,
\* sources and num_sources; `l` is the handler's locals and `s` the collection
\* as it returns.
Return(t, resp, l, s) ==
    /\ done' = [status |-> resp.status, detail |-> resp.detail, req |-> req[t], loc |-> l,
                post |-> s, total |-> resp.total, answer |-> resp.answer,
                sources |-> resp.sources, num_sources |-> resp.num_sources, prev |-> hist]
    /\ hist' = Summary(req[t], resp.status)
    /\ pc' = [pc EXCEPT ![t] = "idle"]
    /\ req' = [req EXCEPT ![t] = NoReq]
    /\ loc' = [loc EXCEPT ![t] = NoLoc]

OkResponse(total) ==
    [status |-> "ok", detail |-> "", total |-> total, answer |-> "",
     sources |-> <<>>, num_sources |-> 0]

\* Variant: the error response carries a fixed text.
GenericErrorResponse(message) ==
    [status |-> "error", detail |-> "pipeline failed", total |-> 0, answer |-> "",
     sources |-> <<>>, num_sources |-> 0]

\* except Exception as e: raise HTTPException(status_code=500, detail=str(e))
ErrorResponse(message) ==
    [status |-> "error", detail |-> message, total |-> 0, answer |-> "",
     sources |-> <<>>, num_sources |-> 0]

Goto(t, next, l) ==
    /\ pc' = [pc EXCEPT ![t] = next]
    /\ loc' = [loc EXCEPT ![t] = l]
    /\ UNCHANGED <<req, done, hist>>

\* A call on a collection that was deleted raises.
Missing == "CollectionMissing"

Raise(t, message) ==
    /\ Return(t, ErrorResponse(message), loc[t], store)
    /\ UNCHANGED <<store, collection>>

(* ------------------- POST /documents/add (main.py:94) ----------------- *)
StartAddDocument(t) ==
    /\ pc[t] = "idle"
    /\ \E id \in Ids, b \in Bodies :
           Begin(t, [NoReq EXCEPT !.op = "add_document", !.id = id,
                                  !.content = b.content, !.metadata = b.metadata],
                 "add_store")

\* main.py:101-109 and vector_store.py:25-31
AddDocumentStore(t) ==
    /\ pc[t] = "add_store"
    /\ LET embedding == create_embedding(req[t].content)
           l == Touch(t, [loc[t] EXCEPT !.embedding = embedding])
           err == AddError(<<req[t].id>>, <<req[t].content>>, <<embedding>>, <<req[t].metadata>>)
       IN IF collection # "ready" THEN Raise(t, Missing)
          ELSE IF err # "none" THEN Raise(t, err)
          ELSE /\ store' = CollectionAdd(store, req[t].id,
                               Record(req[t].content, embedding, req[t].metadata))
               /\ Goto(t, "add_count", l)
               /\ UNCHANGED collection

\* main.py:111-118
AddDocumentCount(t) ==
    /\ pc[t] = "add_count"
    /\ IF collection # "ready" THEN Raise(t, Missing)
       ELSE /\ Return(t, OkResponse(count(store)), Touch(t, loc[t]), store)
            /\ UNCHANGED <<store, collection>>

(* ---------------- POST /documents/add-batch (main.py:123) ------------- *)
\* The id lists of the batches sent: up to MaxBatch ids, repeats included, in
\* ascending order.
IdSeqs ==
    {ids \in UNION {[1..n -> Ids] : n \in 0..MaxBatch} :
        \A i \in 1..(Len(ids) - 1) : ids[i] <= ids[i + 1]}

BatchBody(id) ==
    IF id % 2 = 1 THEN [content |-> Text("c", PreviewCap), metadata |-> "m3"]
    ELSE [content |-> Text("b", 3), metadata |-> "m1"]

StartAddBatch(t) ==
    /\ pc[t] = "idle"
    /\ \E ids \in IdSeqs :
           Begin(t, [NoReq EXCEPT !.op = "add_batch",
                       !.documents = [i \in 1..Len(ids) |->
                           [id |-> ids[i], content |-> BatchBody(ids[i]).content,
                            metadata |-> BatchBody(ids[i]).metadata]]],
                 "batch_embed")

\* main.py:129-134: the parallel lists and the embeddings
AddBatchEmbed(t) ==
    /\ pc[t] = "batch_embed"
    /\ LET docs == req[t].documents
           contents == [i \in 1..Len(docs) |-> docs[i].content]
       IN Goto(t, "batch_add",
               [loc[t] EXCEPT !.ids = [i \in 1..Len(docs) |-> docs[i].id],
                              !.contents = contents,
                              !.metadatas = [i \in 1..Len(docs) |-> docs[i].metadata],
                              !.embeddings = create_embeddings(contents)])
    /\ UNCHANGED <<store, collection>>

\* VectorStoreService.add_documents called with the caller's own lists: as
\* many contents as ids, one fewer or one more.
StartAddDocuments(t) ==
    /\ pc[t] = "idle"
    /\ \E ids \in IdSeqs : \E m \in (Len(ids) - 1)..(Len(ids) + 1) \cap 0..MaxBatch :
           LET contents == [i \in 1..m |-> Text("c", PreviewCap)]
               metadatas == [i \in 1..m |-> "m3"]
           IN BeginWith(t, [NoReq EXCEPT !.op = "add_documents", !.ids = ids,
                               !.contents = contents, !.metadatas = metadatas],
                        "batch_add",
                        [NoLoc EXCEPT !.ids = ids, !.contents = contents,
                               !.metadatas = metadatas,
                               !.embeddings = create_embeddings(contents)])

\* vector_store.py:35-40: Collection.add checks its arguments
AddDocumentsCheck(t) ==
    /\ pc[t] = "batch_add"
    /\ LET err == AddError(loc[t].ids, loc[t].contents, loc[t].embeddings, loc[t].metadatas)
           n == Min(Len(loc[t].ids), Len(loc[t].contents))
       IN IF collection # "ready" THEN Raise(t, Missing)
          ELSE IF err # "none" THEN Raise(t, err)
          ELSE /\ Goto(t, IF n >= 1 THEN "batch_insert" ELSE "batch_count",
                       Touch(t, [loc[t] EXCEPT !.i = 1]))
               /\ UNCHANGED <<store, collection>>

\* Variant: the write stops after the first record of the batch.
AddDocumentsInsertOnce(t) ==
    /\ pc[t] = "batch_insert"
    /\ IF collection # "ready" THEN Raise(t, Missing)
       ELSE /\ store' = CollectionAdd(store, loc[t].ids[1],
                            Record(loc[t].contents[1], loc[t].embeddings[1],
                                   loc[t].metadatas[1]))
            /\ Goto(t, "batch_count", Touch(t, [loc[t] EXCEPT !.i = 2]))
            /\ UNCHANGED collection

\* ... and then writes the records, one after the other
AddDocumentsInsert(t) ==
    /\ pc[t] = "batch_insert"
    /\ LET i == loc[t].i
           n == Min(Len(loc[t].ids), Len(loc[t].contents))
           l == Touch(t, [loc[t] EXCEPT !.i = i + 1])
       IN IF collection # "ready" THEN Raise(t, Missing)
          ELSE /\ store' = CollectionAdd(store, loc[t].ids[i],
                               Record(loc[t].contents[i], loc[t].embeddings[i],
                                      loc[t].metadatas[i]))
               /\ Goto(t, IF i < n THEN "batch_insert" ELSE "batch_count", l)
               /\ UNCHANGED collection

\* main.py:144-150
AddBatchCount(t) ==
    /\ pc[t] = "batch_count"
    /\ req[t].op = "add_batch"
    /\ IF collection # "ready" THEN Raise(t, Missing)
       ELSE /\ Return(t, OkResponse(count(store)), Touch(t, loc[t]), store)
            /\ UNCHANGED <<store, collection>>

\* add_documents returns to its caller
AddDocumentsReturn(t) ==
    /\ pc[t] = "batch_count"
    /\ req[t].op = "add_documents"
    /\ Return(t, OkResponse(0), loc[t], store)
    /\ UNCHANGED <<store, collection>>

(* --------------------- POST /query (main.py:155) ---------------------- *)
\* The id of the document whose add was the request completed last, when the
\* query text is that document's content (0 otherwise).
JustAdded(q) ==
    IF done.status = "ok" /\ done.req.op = "add_document" /\ done.req.content = q
    THEN done.req.id ELSE 0

Stage(l, name) == [l EXCEPT !.stages = Append(l.stages, name)]

StartQuery(t) ==
    /\ pc[t] = "idle"
    /\ \E q \in Queries, k \in TopKs, th \in Thresholds :
           BeginWith(t, [NoReq EXCEPT !.op = "query", !.query = q, !.top_k = k, !.threshold = th],
                     "q_embed", [NoLoc EXCEPT !.added = JustAdded(q)])

\* main.py:162
QueryEmbed(t) ==
    /\ pc[t] = "q_embed"
    /\ Goto(t, "q_search",
            Stage([loc[t] EXCEPT !.embedding = create_embedding(req[t].query)], "embed"))
    /\ UNCHANGED <<store, collection>>

QueryEmbedFail(t) ==
    /\ pc[t] = "q_embed"
    /\ Return(t, ErrorResponse("EmbeddingUnavailable"), Stage(loc[t], "embed"), store)
    /\ UNCHANGED <<store, collection>>

\* main.py:165-168 and vector_store.py:42-48
QuerySearch(t) ==
    /\ pc[t] = "q_search"
    /\ IF collection # "ready"
       THEN /\ Return(t, ErrorResponse(Missing), Stage(loc[t], "search"), store)
            /\ UNCHANGED <<store, collection>>
       ELSE \E ord \in QueryOrders(store, loc[t].embedding, req[t].top_k) :
            /\ Goto(t, "q_filter",
                    Stage(Touch(t, [loc[t] EXCEPT
                        !.results = QueryResult(store, loc[t].embedding, ord)]), "search"))
            /\ UNCHANGED <<store, collection>>

QuerySearchFail(t) ==
    /\ pc[t] = "q_search"
    /\ Return(t, ErrorResponse("IndexUnavailable"), Stage(loc[t], "search"), store)
    /\ UNCHANGED <<store, collection>>

\* main.py:170-186
QueryFilter(t) ==
    /\ pc[t] = "q_filter"
    /\ Goto(t, "q_generate",
            Stage([loc[t] EXCEPT
                !.relevant = FilterLoop(loc[t].results, req[t].threshold, 1, <<>>)], "filter"))
    /\ UNCHANGED <<store, collection>>

\* main.py:189 and llm.py:11-57: the prompt, then the one call of
\* client.chat.completions.create
Generating(t) ==
    Stage([loc[t] EXCEPT !.prompt = BuildPrompt(req[t].query, loc[t].relevant),
                         !.calls = loc[t].calls + 1], "generate")

QueryGenerate(t) ==
    /\ pc[t] = "q_generate"
    /\ Goto(t, "q_format", [Generating(t) EXCEPT !.answer = "completion"])
    /\ UNCHANGED <<store, collection>>

QueryGenerateFail(t) ==
    /\ pc[t] = "q_generate"
    /\ Return(t, ErrorResponse("GenerationFailed"), Generating(t), store)
    /\ UNCHANGED <<store, collection>>

\* main.py:191-208
QueryFormat(t) ==
    /\ pc[t] = "q_format"
    /\ LET sources == FormatSources(loc[t].relevant)
       IN Return(t, [status |-> "ok", detail |-> "", total |-> 0, answer |-> loc[t].answer,
                     sources |-> sources, num_sources |-> Len(sources)],
                 Stage(loc[t], "format"), store)
    /\ UNCHANGED <<store, collection>>

(* --------------------- GET /documents (main.py:214) ------------------- *)
StartList(t) ==
    /\ pc[t] = "idle"
    /\ Begin(t, [NoReq EXCEPT !.op = "list_documents"], "list_get")

\* main.py:218-227 and vector_store.py:50-54
ListGet(t) ==
    /\ pc[t] = "list_get"
    /\ IF collection # "ready" THEN Raise(t, Missing)
       ELSE /\ Goto(t, "list_count",
                    Touch(t, [loc[t] EXCEPT !.docs =
                        {[id |-> i, content |-> Preview(store[i].content),
                          metadata |-> store[i].metadata] : i \in DOMAIN store}]))
            /\ UNCHANGED <<store, collection>>

\* main.py:229-235
ListCount(t) ==
    /\ pc[t] = "list_count"
    /\ IF collection # "ready" THEN Raise(t, Missing)
       ELSE /\ Return(t, OkResponse(count(store)), Touch(t, loc[t]), store)
            /\ UNCHANGED <<store, collection>>

(* ---------------- DELETE /documents/{doc_id} (main.py:240) ------------ *)
StartDelete(t) ==
    /\ pc[t] = "idle"
    /\ \E id \in Ids : Begin(t, [NoReq EXCEPT !.op = "delete_document", !.id = id], "delete_call")

\* main.py:244 and vector_store.py:56-57
DeleteCall(t) ==
    /\ pc[t] = "delete_call"
    /\ LET r == CollectionDelete(store, req[t].id)
       IN IF collection # "ready" THEN Raise(t, Missing)
          ELSE IF r.err # "none" THEN Raise(t, r.err)
          ELSE /\ store' = r.store
               /\ Goto(t, "delete_count", Touch(t, loc[t]))
               /\ UNCHANGED collection

\* main.py:245-252
DeleteCount(t) ==
    /\ pc[t] = "delete_count"
    /\ IF collection # "ready" THEN Raise(t, Missing)
       ELSE /\ Return(t, OkResponse(count(store)), Touch(t, loc[t]), store)
            /\ UNCHANGED <<store, collection>>

(* -------------------- DELETE /documents (main.py:257) ----------------- *)
StartReset(t) ==
    /\ pc[t] = "idle"
    /\ Begin(t, [NoReq EXCEPT !.op = "reset"], "reset_delete")

\* vector_store.py:63: client.delete_collection
ResetDelete(t) ==
    /\ pc[t] = "reset_delete"
    /\ IF collection # "ready" THEN Raise(t, Missing)
       ELSE /\ collection' = "deleted"
            /\ store' = EmptyCollection
            /\ Goto(t, "reset_create", Touch(t, loc[t]))

\* vector_store.py:64-67: client.get_or_create_collection, then main.py:264-267
ResetCreate(t) ==
    /\ pc[t] = "reset_create"
    /\ collection' = "ready"
    /\ Return(t, OkResponse(0), Touch(t, loc[t]), store)
    /\ UNCHANGED store

(* ------------------------ GET /health (main.py:83) -------------------- *)
StartHealth(t) ==
    /\ pc[t] = "idle"
    /\ Begin(t, [NoReq EXCEPT !.op = "health"], "health_count")

HealthCount(t) ==
    /\ pc[t] = "health_count"
    /\ IF collection # "ready" THEN Raise(t, Missing)
       ELSE /\ Return(t, OkResponse(count(store)), Touch(t, loc[t]), store)
            /\ UNCHANGED <<store, collection>>

(* --------------------------- specification ---------------------------- *)
Next ==
    \E t \in Tasks :
        \/ StartAddDocument(t) \/ AddDocumentStore(t) \/ AddDocumentCount(t)
        \/ StartAddBatch(t) \/ AddBatchEmbed(t) \/ StartAddDocuments(t)
        \/ AddDocumentsCheck(t) \/ AddDocumentsInsert(t)
        \/ AddBatchCount(t) \/ AddDocumentsReturn(t)
        \/ StartQuery(t) \/ QueryEmbed(t) \/ QueryEmbedFail(t)
        \/ QuerySearch(t) \/ QuerySearchFail(t) \/ QueryFilter(t)
        \/ QueryGenerate(t) \/ QueryGenerateFail(t) \/ QueryFormat(t)
        \/ StartList(t) \/ ListGet(t) \/ ListCount(t)
        \/ StartDelete(t) \/ DeleteCall(t) \/ DeleteCount(t)
        \/ StartReset(t) \/ ResetDelete(t) \/ ResetCreate(t)
        \/ StartHealth(t) \/ HealthCount(t)

Spec == Init /\ [][Next]_vars

(* ------------------------------- claims ------------------------------- *)
QueryDone == done.status # "none" /\ done.req.op = "query"

\* What the filter step of a query was given and what it kept: of the tasks
\* past the filter, and of the query that returned last.
Filtered ==
    {[results |-> loc[t].results, relevant |-> loc[t].relevant, threshold |-> req[t].threshold] :
        t \in {u \in Tasks : pc[u] \in {"q_generate", "q_format"}}}
    \cup (IF QueryDone /\ Len(done.loc.stages) >= 3
          THEN {[results |-> done.loc.results, relevant |-> done.loc.relevant,
                 threshold |-> done.req.threshold]}
          ELSE {})

Position(results, id) == CHOOSE i \in 1..Len(results) : results[i].id = id

\* C1: the filter keeps exactly the neighbours whose similarity 1 - distance
\* is at least the threshold (none below it kept, none at or above it
\* dropped), each with its own document, metadata and distance, in the order
\* of the index result.
C1_FilterKeepsExactlyQualifying ==
    \A v \in Filtered :
        /\ \A j \in 1..Len(v.relevant) :
              /\ One - v.relevant[j].distance >= v.threshold
              /\ \E i \in 1..Len(v.results) :
                    /\ v.results[i].id = v.relevant[j].id
                    /\ v.results[i].document = v.relevant[j].document
                    /\ v.results[i].metadata = v.relevant[j].metadata
                    /\ v.results[i].distance = v.relevant[j].distance
        /\ \A i \in 1..Len(v.results) :
              One - v.results[i].distance >= v.threshold
                 => \E j \in 1..Len(v.relevant) : v.relevant[j].id = v.results[i].id
        /\ \A j, k \in 1..Len(v.relevant) :
              j < k => Position(v.results, v.relevant[j].id) < Position(v.results, v.relevant[k].id)

\* A query whose index result held two neighbours, one kept at a similarity
\* equal to the threshold and one dropped.
C1_Witness ==
    /\ QueryDone /\ done.status = "ok"
    /\ Len(done.loc.results) = 2
    /\ Len(done.loc.relevant) = 1
    /\ One - done.loc.relevant[1].distance = done.req.threshold

AddDone == done.status # "none" /\ done.req.op = "add_document"

\* C2: adding a document whose id is already stored replaces the record: the
\* index then holds the content, embedding and metadata of the second add
\* under that id, and count() is as before the add.
C2_AddReplaces ==
    (AddDone /\ done.req.id \in DOMAIN done.loc.pre) =>
        /\ done.status = "ok"
        /\ done.req.id \in DOMAIN done.post
        /\ done.post[done.req.id] =
              Record(done.req.content, create_embedding(done.req.content), done.req.metadata)
        /\ Cardinality(DOMAIN done.post) = Cardinality(DOMAIN done.loc.pre)
        /\ done.total = Cardinality(DOMAIN done.loc.pre)

ServiceAddDone == done.status # "none" /\ done.req.op = "add_documents"

Distinct(ids) == \A i, j \in 1..Len(ids) : i # j => ids[i] # ids[j]

BatchIds == IF done.req.op = "add_batch" THEN done.loc.ids ELSE done.req.ids

\* C5: after add_documents of N ids that are pairwise distinct and not stored
\* before, count() is the prior count() plus N; after reset(), count() is 0.
C5_CountAfterBatchAndReset ==
    /\ ( /\ done.status = "ok"
         /\ done.req.op \in {"add_batch", "add_documents"}
         /\ Distinct(BatchIds)
         /\ \A i \in 1..Len(BatchIds) : BatchIds[i] \notin DOMAIN done.loc.pre )
       => /\ Cardinality(DOMAIN done.post) = Cardinality(DOMAIN done.loc.pre) + Len(BatchIds)
          /\ done.req.op = "add_batch" =>
                done.total = Cardinality(DOMAIN done.loc.pre) + Len(BatchIds)
    /\ (done.status # "none" /\ done.req.op = "reset")
       => /\ done.status = "ok"
          /\ Cardinality(DOMAIN done.post) = 0
          /\ done.total = 0

\* A batch of two new ids was added.
C5_Witness ==
    /\ done.status = "ok" /\ done.req.op = "add_batch"
    /\ Len(BatchIds) = 2 /\ Distinct(BatchIds)
    /\ Cardinality(DOMAIN done.post) = 2

DeleteDone == done.status # "none" /\ done.req.op = "delete_document"

\* C6: delete_document(id) never fails, removes id and nothing else; called
\* for an id that is not stored, or a second time in a row for the same id,
\* it leaves the records and count() as they were.
C6_DeleteIdempotent ==
    DeleteDone =>
        /\ done.status = "ok"
        /\ DOMAIN done.post = DOMAIN done.loc.pre \ {done.req.id}
        /\ \A i \in DOMAIN done.post : done.post[i] = done.loc.pre[i]
        /\ done.total = Cardinality(DOMAIN done.post)
        /\ done.req.id \notin DOMAIN done.loc.pre => done.post = done.loc.pre
        /\ done.prev = [op |-> "delete", id |-> done.req.id] =>
              /\ done.post = done.loc.pre
              /\ done.total = Cardinality(DOMAIN done.loc.pre)

\* The second of two deletes of one id in a row, on an index that holds a record.
C6_Witness ==
    /\ DeleteDone
    /\ done.prev = [op |-> "delete", id |-> done.req.id]
    /\ Cardinality(DOMAIN done.post) >= 1

\* The queries that follow the add of a document d, with d's content as
\* their text and top_k = 1, and have their index result: the id of d, the
\* result, the query embedding and the index as the query met it.
AfterAdd ==
    {[id |-> loc[t].added, results |-> loc[t].results,
      q |-> loc[t].embedding, index |-> loc[t].pre] :
        t \in {u \in Tasks : /\ pc[u] \in {"q_filter", "q_generate", "q_format"}
                             /\ loc[u].added # 0 /\ req[u].top_k = 1}}
    \cup (IF QueryDone /\ Len(done.loc.stages) >= 3 /\ done.loc.added # 0 /\ done.req.top_k = 1
          THEN {[id |-> done.loc.added, results |-> done.loc.results,
                 q |-> done.loc.embedding, index |-> done.loc.pre]}
          ELSE {})

DistanceTo(v, id) == One - Dot(v.q, v.index[id].embedding)

Failures == {"EmbeddingUnavailable", "IndexUnavailable", "GenerationFailed"}

C9_FallbackPrompt ==
    (QueryDone /\ Len(done.loc.stages) >= 4) =>
        /\ done.loc.calls = 1
        /\ done.loc.prompt.query = done.req.query
        /\ Len(done.loc.relevant) = 0 =>
              /\ done.loc.prompt.kind = "plain"
              /\ done.loc.prompt.context = <<>>
              /\ done.num_sources = 0 /\ done.sources = <<>>
              /\ done.status = "ok" => done.answer # ""
        /\ Len(done.loc.relevant) >= 1 =>
              /\ done.loc.prompt.kind = "grounded"
              /\ Len(done.loc.prompt.context) = Len(done.loc.relevant)

\* An answer was returned for a query whose neighbours were all below the threshold.
C9_Witness ==
    /\ QueryDone /\ done.status = "ok"
    /\ Len(done.loc.results) >= 1
    /\ Len(done.loc.relevant) = 0

\* C10: a successful query returns one source per passage given to the answer
\* generator, in the same order, with the passage's id and metadata;
\* num_sources is the length of the list and at most top_k; the preview is
\* the passage content when it is at most 200 characters long, and its first
\* 200 characters followed by "..." otherwise.
C10_SourcesMatchPassages ==
    (QueryDone /\ done.status = "ok") =>
        /\ Len(done.sources) = Len(done.loc.relevant)
        /\ Len(done.sources) = Len(done.loc.prompt.context)
        /\ done.num_sources = Len(done.sources)
        /\ done.num_sources <= done.req.top_k
        /\ \A i \in 1..Len(done.sources) :
              LET src == done.sources[i]
                  doc == done.loc.relevant[i]
              IN /\ src.id = doc.id
                 /\ src.metadata = doc.metadata
                 /\ done.loc.prompt.context[i].content = doc.document
                 /\ src.content =
                       IF StrLen(doc.document) <= 200 THEN doc.document
                       ELSE StrTake(doc.document, 200) \o <<[ch |-> ".", n |-> 3]>>

\* Two sources, one with its content whole and one cut at 200 characters.
C10_Witness ==
    /\ QueryDone /\ done.status = "ok"
    /\ Len(done.sources) = 2
    /\ \E i, j \in 1..2 :
          /\ StrLen(done.loc.relevant[i].document) = 200
          /\ done.sources[i].content = done.loc.relevant[i].document
          /\ StrLen(done.loc.relevant[j].document) = 201
          /\ StrLen(done.sources[j].content) = 203
====
